---- MODULE Spec2Model ----
(***************************************************************************)
(* Transcript ingestion pipeline of japanese-subtitle-search:              *)
(* the SQLite persistence layer (src/src/db.rs), the SRT parser and the    *)
(* directory aggregator (src/src/srt_parser/*.rs) and main (main.rs).      *)
(*                                                                         *)
(* Strings whose characters matter (subtitle text, timestamps, file and    *)
(* directory names) are sequences of one-character strings.                *)
(***************************************************************************)
EXTENDS Integers, Sequences, FiniteSets, TLC

VARIABLES
    shows,        \* table shows:       set of [id, name, show_type]
    episodes,     \* table episodes:    set of [id, show_id, name, season, episode_number]
    transcripts,  \* table transcripts: set of [id, episode_id, line_id, time_start, time_end, text]
    lastRowid,    \* sqlite3_last_insert_rowid of the connection
    fkEnforced,   \* whether the SQLite build enforces FOREIGN KEY clauses
    csv,          \* content of transcripts.csv: sequence of records <<id, line>>
    ret,          \* the last call on the DbHandler: its arguments and its outcome
    pc,           \* position of the caller
    pending,      \* the three batches and the flag of the run in progress
    run,          \* number of calls made, or of the run in progress
    srtText,      \* the text given to the parser
    given,        \* the blocks the text was written from, <<>> if from none
    parsed,       \* the result of the parser
    tree,         \* the entries of the directory tree under root
    methods,      \* the episode-number and the title strategy
    entries       \* the result of the aggregator

dbvars == <<shows, episodes, transcripts, lastRowid, fkEnforced, csv, ret>>

frontvars == <<srtText, given, parsed, tree, methods, entries>>

vars == <<shows, episodes, transcripts, lastRowid, fkEnforced, csv, ret, pc, pending, run,
          srtText, given, parsed, tree, methods, entries>>

(***************************************************************************)
(* Bounds of the model.                                                    *)
(***************************************************************************)
MaxBatch == 2     \* rows of a batch
MaxCalls == 3     \* calls on the connection
MaxRuns == 2      \* runs of the three batch inserts
MaxBlocks == 2    \* blocks of a subtitle text
MaxChars == 2     \* characters of a text written from no block
MaxFiles == 3     \* entries of a directory tree

(***************************************************************************)
(* Generic helpers.                                                        *)
(***************************************************************************)
SetMax(S) == CHOOSE m \in S : \A x \in S : x <= m

SeqsUpTo(S, n) == UNION {[1..k -> S] : k \in 0..n}

(***************************************************************************)
(* Decimal formatting, as format!("{}") and format!("{:0w}") do it.        *)
(***************************************************************************)
DigitChars == <<"0", "1", "2", "3", "4", "5", "6", "7", "8", "9">>

RECURSIVE ToDecimal(_)
ToDecimal(n) ==
    IF n < 10 THEN <<DigitChars[n + 1]>>
    ELSE ToDecimal(n \div 10) \o <<DigitChars[(n % 10) + 1]>>

RECURSIVE PadZero(_, _)
PadZero(s, w) == IF Len(s) >= w THEN s ELSE PadZero(<<"0">> \o s, w)

\* Timestamp::to_string: "{:02}:{:02}:{:02},{:03}"
TimestampToString(t) ==
    PadZero(ToDecimal(t.hours), 2) \o <<":">> \o
    PadZero(ToDecimal(t.minutes), 2) \o <<":">> \o
    PadZero(ToDecimal(t.seconds), 2) \o <<",">> \o
    PadZero(ToDecimal(t.milliseconds), 3)

\* Timestamp::new
Timestamp(h, m, s, ms) == [hours |-> h, minutes |-> m, seconds |-> s, milliseconds |-> ms]

(***************************************************************************)
(* The store: three tables, INTEGER PRIMARY KEY ids, natural-key UNIQUE    *)
(* constraints and FOREIGN KEY clauses (create_tables).                    *)
(***************************************************************************)
\* id INTEGER PRIMARY KEY: a new row gets the largest rowid of its table plus one
NextRowid(table) == IF table = {} THEN 1 ELSE SetMax({r.id : r \in table}) + 1

\* Mutant: the table has no UNIQUE(episode_id, time_start, time_end)
TranscriptNeverExists(db, row) == FALSE

\* UNIQUE constraints of the three tables
ShowExists(db, row) == \E r \in db.shows : r.name = row.name

EpisodeExists(db, row) ==
    \E r \in db.episodes : /\ r.show_id = row.show_id
                           /\ r.season = row.season
                           /\ r.episode_number = row.episode_number

TranscriptExists(db, row) ==
    \E r \in db.transcripts : /\ r.episode_id = row.episode_id
                              /\ r.time_start = row.time_start
                              /\ r.time_end = row.time_end

\* FOREIGN KEY(show_id) REFERENCES shows(id), FOREIGN KEY(episode_id) REFERENCES episodes(id)
ShowIdValid(db, row) == \E s \in db.shows : s.id = row.show_id

EpisodeIdValid(db, row) == \E e \in db.episodes : e.id = row.episode_id

\* The connection's view of the store
Db == [shows |-> shows, episodes |-> episodes, transcripts |-> transcripts,
       last |-> lastRowid, fk |-> fkEnforced]

\* Mutant: INSERT OR REPLACE, the row in conflict is deleted and the new one inserted
ExecShowReplace(db, row) ==
    LET kept == {r \in db.shows : r.name # row.name}
        id == NextRowid(db.shows)
    IN  [db |-> [db EXCEPT !.shows = kept \cup {[id |-> id, name |-> row.name,
                                                   show_type |-> row.show_type]},
                           !.last = id],
         rows |-> 1]

\* INSERT OR IGNORE INTO shows (name, show_type): the outcome of one execution.
\* rows = number of rows affected, -1 for an execution error.
ExecShow(db, row) ==
    IF ShowExists(db, row) THEN [db |-> db, rows |-> 0]
    ELSE LET id == NextRowid(db.shows)
         IN  [db |-> [db EXCEPT !.shows = @ \cup {[id |-> id, name |-> row.name,
                                                   show_type |-> row.show_type]},
                                !.last = id],
              rows |-> 1]

\* INSERT OR IGNORE INTO episodes (show_id, name, season, episode_number)
ExecEpisode(db, row) ==
    IF EpisodeExists(db, row) THEN [db |-> db, rows |-> 0]
    ELSE IF db.fk /\ ~ShowIdValid(db, row) THEN [db |-> db, rows |-> -1]
    ELSE LET id == NextRowid(db.episodes)
         IN  [db |-> [db EXCEPT !.episodes = @ \cup {[id |-> id, show_id |-> row.show_id,
                                                      name |-> row.name, season |-> row.season,
                                                      episode_number |-> row.episode_number]},
                                !.last = id],
              rows |-> 1]

\* INSERT OR IGNORE INTO transcripts (episode_id, line_id, time_start, time_end, text)
ExecTranscript(db, row) ==
    IF TranscriptExists(db, row) THEN [db |-> db, rows |-> 0]
    ELSE IF db.fk /\ ~EpisodeIdValid(db, row) THEN [db |-> db, rows |-> -1]
    ELSE LET id == NextRowid(db.transcripts)
         IN  [db |-> [db EXCEPT !.transcripts = @ \cup {[id |-> id, episode_id |-> row.episode_id,
                                                         line_id |-> row.line_id,
                                                         time_start |-> row.time_start,
                                                         time_end |-> row.time_end,
                                                         text |-> row.text]},
                                !.last = id],
              rows |-> 1]

\* One execution of the statement of table `op`; `fails` is a failure of the
\* execution that is no constraint (an I/O error, a full disk).
Exec(op, db, row, fails) ==
    IF fails THEN [db |-> db, rows |-> -1]
    ELSE CASE op = "shows" -> ExecShow(db, row)
           [] op = "episodes" -> ExecEpisode(db, row)
           [] op = "transcripts" -> ExecTranscript(db, row)

\* Mutant: the transaction is dropped with DropBehavior::Commit
RollbackCommits(before, db) == db

\* Transaction rollback (the Transaction is dropped without commit): the tables
\* are restored, last_insert_rowid is not.
Rollback(before, db) ==
    [db EXCEPT !.shows = before.shows, !.episodes = before.episodes,
               !.transcripts = before.transcripts]

(***************************************************************************)
(* Batch inserts: one transaction, one statement executed once per row.    *)
(***************************************************************************)
\* Mutant: the loop takes Ok(_) for an accepted row, whatever rows_affected is
RECURSIVE BatchLoopAnyOk(_, _, _, _, _, _)
BatchLoopAnyOk(op, db, rows, failAt, i, acc) ==
    IF i > Len(rows) THEN [db |-> db, failed |-> 0, accepted |-> acc]
    ELSE LET r == Exec(op, db, rows[i], failAt = i)
         IN  IF r.rows < 0 THEN [db |-> db, failed |-> i, accepted |-> acc]
             ELSE BatchLoopAnyOk(op, r.db, rows, failAt, i + 1,
                                 Append(acc, [id |-> r.db.last, row |-> rows[i]]))

\* The loop `for row in rows { stmt.execute(params![..]) }` from row i on.
\* failAt is the row whose execution the environment fails (0: none);
\* acc collects the rows with rows_affected > 0 and their last_insert_rowid.
RECURSIVE BatchLoop(_, _, _, _, _, _)
BatchLoop(op, db, rows, failAt, i, acc) ==
    IF i > Len(rows) THEN [db |-> db, failed |-> 0, accepted |-> acc]
    ELSE LET r == Exec(op, db, rows[i], failAt = i)
         IN  IF r.rows < 0 THEN [db |-> db, failed |-> i, accepted |-> acc]
             ELSE BatchLoop(op, r.db, rows, failAt, i + 1,
                            IF r.rows > 0
                            THEN Append(acc, [id |-> r.db.last, row |-> rows[i]])
                            ELSE acc)

\* text.split('\n')
RECURSIVE Split(_, _)
Split(s, c) ==
    IF \A i \in 1..Len(s) : s[i] # c THEN <<s>>
    ELSE LET k == CHOOSE i \in 1..Len(s) : s[i] = c /\ \A j \in 1..(i - 1) : s[j] # c
         IN  <<SubSeq(s, 1, k - 1)>> \o Split(SubSeq(s, k + 1, Len(s)), c)

\* for line in text.split('\n') { writeln!(writer, "{},{}", id, line) }
RowRecords(id, text) ==
    LET lines == Split(text, "\n")
    IN  [k \in 1..Len(lines) |-> <<id, lines[k]>>]

\* The records written for the accepted rows, in the order of acceptance
RECURSIVE CsvRecords(_)
CsvRecords(accepted) ==
    IF accepted = <<>> THEN <<>>
    ELSE RowRecords(Head(accepted).id, Head(accepted).row.text) \o CsvRecords(Tail(accepted))

\* The outcome of a call
Outcome(db, file, status, err, failed, accepted, written, events) ==
    [db |-> db, csv |-> file, status |-> status, err |-> err, failed |-> failed,
     accepted |-> accepted, written |-> written, events |-> events]

\* batch_insert_shows and batch_insert_episodes.
\* env.failAt: the row whose execution fails; env.commitFails: tx.commit() fails.
\* A `?` drops the transaction, which rolls back.
BatchInsert(op, db, file, rows, env) ==
    LET loop == BatchLoop(op, db, rows, env.failAt, 1, <<>>)
    IN  IF loop.failed > 0
        THEN Outcome(Rollback(db, loop.db), file, "err", "row", loop.failed,
                     Len(loop.accepted), 0, <<"rollback">>)
        ELSE IF env.commitFails
        THEN Outcome(Rollback(db, loop.db), file, "err", "commit", 0,
                     Len(loop.accepted), 0, <<"commit_failed", "rollback">>)
        ELSE Outcome(loop.db, file, "ok", "none", 0, Len(loop.accepted), 0, <<"commit">>)

\* batch_insert_transcripts(transcripts, output_csv).
\* env.io = "create": File::create fails; "flush": writer.flush() fails after
\* at most env.kept records reached the file. A BufWriter dropped on an early return
\* writes out what it holds, before the transaction (declared first) is dropped.
BatchInsertTranscripts(db, file, rows, output_csv, env) ==
    IF output_csv /\ env.io = "create"
    THEN Outcome(db, file, "err", "io", 0, 0, 0, <<"create_failed", "rollback">>)
    ELSE
    LET loop == BatchLoop("transcripts", db, rows, env.failAt, 1, <<>>)
        records == CsvRecords(loop.accepted)
        n == Len(loop.accepted)
        created == IF output_csv THEN <<"create">> ELSE <<>>
        flushed == IF output_csv THEN <<"flush">> ELSE <<>>
        out == IF output_csv THEN records ELSE file
        w == IF output_csv THEN Len(records) ELSE 0
    IN  IF loop.failed > 0
        THEN Outcome(Rollback(db, loop.db), out, "err", "row", loop.failed, n, w,
                     created \o flushed \o <<"rollback">>)
        ELSE IF output_csv /\ env.io = "flush"
        THEN LET kept == IF env.kept < Len(records) THEN env.kept ELSE Len(records)
             IN  Outcome(Rollback(db, loop.db), SubSeq(records, 1, kept), "err", "io", 0, n,
                         kept, created \o <<"flush_failed", "rollback">>)
        ELSE IF env.commitFails
        THEN Outcome(Rollback(db, loop.db), out, "err", "commit", 0, n, w,
                     created \o flushed \o <<"commit_failed", "rollback">>)
        ELSE Outcome(loop.db, out, "ok", "none", 0, n, w, created \o flushed \o <<"commit">>)

(***************************************************************************)
(* Text helpers of the parser (str::trim, trim_start_matches, replace,     *)
(* split, parse).                                                          *)
(***************************************************************************)
DigitSet == {"0", "1", "2", "3", "4", "5", "6", "7", "8", "9"}

IsDigit(c) == c \in DigitSet

\* The byte-order mark U+FEFF, one character
BOM == "<U+FEFF>"

\* White_Space characters of the model's alphabet
WhiteSpace == {" ", "\t", "\n", "\r"}

\* The character at position i, "" outside the text
At(s, i) == IF i \in 1..Len(s) THEN s[i] ELSE ""

\* str::trim_start_matches(c): every leading c is removed
RECURSIVE TrimStartMatches(_, _)
TrimStartMatches(s, c) ==
    IF s # <<>> /\ Head(s) = c THEN TrimStartMatches(Tail(s), c) ELSE s

\* str::replace(c, "")
Remove(s, c) == SelectSeq(s, LAMBDA x : x # c)

\* str::trim
Trim(s) ==
    LET inner == {i \in 1..Len(s) : s[i] \notin WhiteSpace}
    IN  IF inner = {} THEN <<>>
        ELSE SubSeq(s, CHOOSE i \in inner : \A j \in inner : i <= j, SetMax(inner))

\* str::split(&[..]): splitting on any character of seps
RECURSIVE SplitAny(_, _)
SplitAny(s, seps) ==
    IF \A i \in 1..Len(s) : s[i] \notin seps THEN <<s>>
    ELSE LET k == CHOOSE i \in 1..Len(s) : s[i] \in seps /\ \A j \in 1..(i - 1) : s[j] \notin seps
         IN  <<SubSeq(s, 1, k - 1)>> \o SplitAny(SubSeq(s, k + 1, Len(s)), seps)

\* The value of a sequence of decimal digits
RECURSIVE DecimalValue(_)
DecimalValue(d) ==
    IF d = <<>> THEN 0
    ELSE 10 * DecimalValue(SubSeq(d, 1, Len(d) - 1))
         + (CHOOSE v \in 0..9 : DigitChars[v + 1] = d[Len(d)])

\* Digit sequence a denotes a number larger than digit sequence b (neither
\* has a leading zero)
RECURSIVE DigitsGreater(_, _)
DigitsGreater(a, b) ==
    IF Len(a) # Len(b) THEN Len(a) > Len(b)
    ELSE IF a = <<>> THEN FALSE
    ELSE IF Head(a) # Head(b) THEN DecimalValue(<<Head(a)>>) > DecimalValue(<<Head(b)>>)
    ELSE DigitsGreater(Tail(a), Tail(b))

\* u32::MAX and usize::MAX (64-bit target) in decimal
U32Max == <<"4", "2", "9", "4", "9", "6", "7", "2", "9", "5">>
UsizeMax == <<"1", "8", "4", "4", "6", "7", "4", "4", "0", "7",
              "3", "7", "0", "9", "5", "5", "1", "6", "1", "5">>

\* str::parse for an unsigned integer type of maximum max: an optional '+',
\* then one or more ASCII digits, the value not above max
ParseUnsigned(s, max) ==
    LET d == IF Len(s) > 1 /\ s[1] = "+" THEN Tail(s) ELSE s
        z == TrimStartMatches(d, "0")
    IN  IF d = <<>> \/ \E i \in 1..Len(d) : ~IsDigit(d[i]) THEN [ok |-> FALSE, value |-> 0]
        ELSE IF DigitsGreater(z, max) THEN [ok |-> FALSE, value |-> 0]
        ELSE [ok |-> TRUE, value |-> DecimalValue(z)]

\* Mutant: the seconds and milliseconds are reduced to their ranges
TimestampFromStrNormalised(s) ==
    LET parts == SplitAny(s, {":", ","})
    IN  IF Len(parts) # 4 THEN [ok |-> FALSE, err |-> "InvalidTimestamp"]
        ELSE LET h == ParseUnsigned(parts[1], U32Max)
                 m == ParseUnsigned(parts[2], U32Max)
                 sec == ParseUnsigned(parts[3], U32Max)
                 ms == ParseUnsigned(parts[4], U32Max)
             IN  IF h.ok /\ m.ok /\ sec.ok /\ ms.ok
                 THEN [ok |-> TRUE,
                       value |-> Timestamp(h.value, m.value, sec.value % 60, ms.value % 1000)]
                 ELSE [ok |-> FALSE, err |-> "InvalidTimestamp"]

\* Timestamp::from_str
TimestampFromStr(s) ==
    LET parts == SplitAny(s, {":", ","})
    IN  IF Len(parts) # 4 THEN [ok |-> FALSE, err |-> "InvalidTimestamp"]
        ELSE LET h == ParseUnsigned(parts[1], U32Max)
                 m == ParseUnsigned(parts[2], U32Max)
                 sec == ParseUnsigned(parts[3], U32Max)
                 ms == ParseUnsigned(parts[4], U32Max)
             IN  IF h.ok /\ m.ok /\ sec.ok /\ ms.ok
                 THEN [ok |-> TRUE, value |-> Timestamp(h.value, m.value, sec.value, ms.value)]
                 ELSE [ok |-> FALSE, err |-> "InvalidTimestamp"]

(***************************************************************************)
(* The regular expression of parse_from_str                                *)
(*   (\d+)\n(\d{2}:\d{2}:\d{2},\d{3}) --> (\d{2}:\d{2}:\d{2},\d{3})\n      *)
(*   ((?s:.*?)(?:\n\n|$))                                                  *)
(* matched leftmost-first, the matches not overlapping.                    *)
(***************************************************************************)
\* \d{2}:\d{2}:\d{2},\d{3} at position i
MatchesTimestamp(s, i) ==
    /\ \A k \in {0, 1, 3, 4, 6, 7, 9, 10, 11} : IsDigit(At(s, i + k))
    /\ At(s, i + 2) = ":"
    /\ At(s, i + 5) = ":"
    /\ At(s, i + 8) = ","

Arrow == <<" ", "-", "-", ">", " ">>

MatchesLiteral(s, i, lit) == \A k \in 1..Len(lit) : At(s, i + k - 1) = lit[k]

\* The end of the run of digits that starts at i
DigitRunEnd(s, i) ==
    CHOOSE e \in i..Len(s) :
        /\ \A k \in i..e : IsDigit(s[k])
        /\ ~IsDigit(At(s, e + 1))

\* Mutant: the body is matched greedily, to the end of the text
BodyEndGreedy(s, i) == Len(s) + 1

\* (?s:.*?)(?:\n\n|$) from position i: the first p with a blank line at p, or
\* the end of the text
BodyEnd(s, i) ==
    CHOOSE p \in i..(Len(s) + 1) :
        /\ (At(s, p) = "\n" /\ At(s, p + 1) = "\n") \/ p = Len(s) + 1
        /\ \A q \in i..(p - 1) : ~(At(s, q) = "\n" /\ At(s, q + 1) = "\n")

NoMatch == [ok |-> FALSE]

\* The match of the expression that starts at position i, if there is one
MatchAt(s, i) ==
    IF ~IsDigit(At(s, i)) THEN NoMatch
    ELSE LET e == DigitRunEnd(s, i)
             t1 == e + 2
             arrow == t1 + 12
             t2 == arrow + 5
             nl == t2 + 12
         IN  IF /\ At(s, e + 1) = "\n"
                /\ MatchesTimestamp(s, t1)
                /\ MatchesLiteral(s, arrow, Arrow)
                /\ MatchesTimestamp(s, t2)
                /\ At(s, nl) = "\n"
             THEN LET p == BodyEnd(s, nl + 1)
                      last == IF p = Len(s) + 1 THEN Len(s) ELSE p + 1
                  IN  [ok |-> TRUE, number |-> SubSeq(s, i, e),
                       start |-> SubSeq(s, t1, t1 + 11), end |-> SubSeq(s, t2, t2 + 11),
                       text |-> SubSeq(s, nl + 1, last), next |-> last + 1]
             ELSE NoMatch

\* re.captures_iter(&input) from position i on
RECURSIVE CapturesIter(_, _)
CapturesIter(s, i) ==
    LET starts == {j \in i..Len(s) : MatchAt(s, j).ok}
    IN  IF starts = {} THEN <<>>
        ELSE LET m == MatchAt(s, CHOOSE j \in starts : \A k \in starts : j <= k)
             IN  <<m>> \o CapturesIter(s, m.next)

\* The loop over the captures, from capture i on
RECURSIVE ParseCaptures(_, _, _)
ParseCaptures(caps, i, subtitles) ==
    IF i > Len(caps)
    THEN IF subtitles = <<>> THEN [ok |-> FALSE, err |-> "MalformedSubtitle"]
         ELSE [ok |-> TRUE, value |-> subtitles]
    ELSE LET number == ParseUnsigned(caps[i].number, UsizeMax)
             start_time == TimestampFromStr(caps[i].start)
             end_time == TimestampFromStr(caps[i].end)
         IN  IF ~number.ok THEN [ok |-> FALSE, err |-> "InvalidNumber"]
             ELSE IF ~start_time.ok THEN [ok |-> FALSE, err |-> start_time.err]
             ELSE IF ~end_time.ok THEN [ok |-> FALSE, err |-> end_time.err]
             ELSE ParseCaptures(caps, i + 1,
                                Append(subtitles,
                                       [number |-> number.value,
                                        start_time |-> start_time.value,
                                        end_time |-> end_time.value,
                                        text |-> Trim(caps[i].text)]))

\* Mutant: a text without a match parses to an empty collection
ParseFromStrEmptyOk(input) ==
    LET text == Remove(TrimStartMatches(input, BOM), "\r")
        r == ParseCaptures(CapturesIter(text, 1), 1, <<>>)
    IN  IF r.ok \/ r.err # "MalformedSubtitle" THEN r ELSE [ok |-> TRUE, value |-> <<>>]

\* Subtitles::parse_from_str
ParseFromStr(input) ==
    LET text == Remove(TrimStartMatches(input, BOM), "\r")
    IN  ParseCaptures(CapturesIter(text, 1), 1, <<>>)

(***************************************************************************)
(* Paths.  A path under root is the sequence of its names after root; a    *)
(* tree is a set of entries [path, kind, content].                         *)
(***************************************************************************)
\* The characters of the model's names, in byte order
ByteOrder ==
    <<".", "0", "1", "2", "3", "4", "5", "6", "7", "8", "9", "A", "B", "E", "S",
      "a", "b", "e", "h", "n", "o", "p", "r", "s", "t", "w", "x">>

Byte(c) == CHOOSE i \in 1..Len(ByteOrder) : ByteOrder[i] = c

\* Ord for the names of one directory: byte-wise lexicographic
RECURSIVE NameLess(_, _)
NameLess(a, b) ==
    IF b = <<>> THEN FALSE
    ELSE IF a = <<>> THEN TRUE
    ELSE IF Head(a) = Head(b) THEN NameLess(Tail(a), Tail(b))
    ELSE Byte(Head(a)) < Byte(Head(b))

\* Path::file_name and Path::parent
FileName(path) == path[Len(path)]

Parent(path) == SubSeq(path, 1, Len(path) - 1)

\* The position of the dot that splits a file name into stem and extension,
\* 0 if there is none (a leading dot does not count)
LastDot(name) ==
    LET dots == {i \in 2..Len(name) : name[i] = "."}
    IN  IF dots = {} THEN 0 ELSE SetMax(dots)

\* path.extension() == Some(ext)
HasExtension(name, ext) ==
    LastDot(name) > 0 /\ SubSeq(name, LastDot(name) + 1, Len(name)) = ext

\* Path::file_stem
FileStem(name) == IF LastDot(name) > 0 THEN SubSeq(name, 1, LastDot(name) - 1) ELSE name

Srt == <<"s", "r", "t">>

\* The name of the root directory itself
RootName == <<"r", "a", "w">>

IsDir(t, path) == path = <<>> \/ \E e \in t : e.path = path /\ e.kind = "dir"

\* A set of paths of one directory as the sorted Vec
RECURSIVE SortedPaths(_)
SortedPaths(S) ==
    IF S = {} THEN <<>>
    ELSE LET least == CHOOSE x \in S : \A y \in S \ {x} : NameLess(FileName(x), FileName(y))
         IN  <<least>> \o SortedPaths(S \ {least})

(***************************************************************************)
(* Identity resolution (episode_info.rs).                                  *)
(***************************************************************************)
None == [some |-> FALSE, value |-> 0]

Some(v) == [some |-> TRUE, value |-> v]

\* i32::MAX in decimal
I32Max == <<"2", "1", "4", "7", "4", "8", "3", "6", "4", "7">>

\* m.as_str().parse().ok() for an i32
ParseI32(digits) ==
    LET r == ParseUnsigned(digits, I32Max)
    IN  IF r.ok THEN Some(r.value) ELSE None

\* get_show_name: the name of the parent directory
get_show_name(file_path) ==
    IF Len(file_path) = 1 THEN RootName ELSE file_path[Len(file_path) - 1]

\* get_episode_number_from_filename: E(\d+) in the file stem
get_episode_number_from_filename(file_path) ==
    LET stem == FileStem(FileName(file_path))
        starts == {i \in 1..Len(stem) : stem[i] = "E" /\ IsDigit(At(stem, i + 1))}
    IN  IF starts = {} THEN None
        ELSE LET i == CHOOSE j \in starts : \A k \in starts : j <= k
             IN  ParseI32(SubSeq(stem, i + 1, DigitRunEnd(stem, i + 1)))

\* get_episode_number_from_last_numbers: (\d+)(?:[^0-9]*$) in the file stem
get_episode_number_from_last_numbers(file_path) ==
    LET stem == FileStem(FileName(file_path))
        digits == {i \in 1..Len(stem) : IsDigit(stem[i])}
    IN  IF digits = {} THEN None
        ELSE LET last == SetMax(digits)
                 first == CHOOSE i \in 1..last :
                              /\ \A k \in i..last : IsDigit(stem[k])
                              /\ ~IsDigit(At(stem, i - 1))
             IN  ParseI32(SubSeq(stem, first, last))

\* .position(|p| p == file_path).map_or(0, |pos| pos as i32 + 1)
Position(sorted, file_path) ==
    IF \E i \in 1..Len(sorted) : sorted[i] = file_path
    THEN CHOOSE i \in 1..Len(sorted) : sorted[i] = file_path
    ELSE 0

\* The entries of root/<show_name> whose extension is srt
SrtListing(t, show_name) ==
    {e.path : e \in {x \in t : Parent(x.path) = <<show_name>>
                                 /\ HasExtension(FileName(x.path), Srt)}}

\* get_episode_number_from_file_order: fs::read_dir(root.join(show_name))
\* .unwrap() panics unless root/<show_name> is a directory
get_episode_number_from_file_order(t, show_name, file_path) ==
    IF ~IsDir(t, <<show_name>>) THEN [panic |-> TRUE, value |-> 0]
    ELSE [panic |-> FALSE,
          value |-> Position(SortedPaths(SrtListing(t, show_name)), file_path)]

\* get_episode_number
get_episode_number(t, method, show_name, file_path) ==
    CASE method = "FromFilename" ->
             LET n == get_episode_number_from_filename(file_path)
             IN  [panic |-> FALSE, value |-> IF n.some THEN n.value ELSE 0]
      [] method = "FromFileOrder" ->
             get_episode_number_from_file_order(t, show_name, file_path)
      [] method = "FromLastNumbers" ->
             LET n == get_episode_number_from_last_numbers(file_path)
             IN  [panic |-> FALSE, value |-> IF n.some THEN n.value ELSE 0]

(***************************************************************************)
(* The callers' inputs.                                                    *)
(***************************************************************************)
ShowA == <<"S", "h", "o", "w", "A">>
ShowB == <<"S", "h", "o", "w", "B">>
Pilot == <<"P", "i", "l", "o", "t">>

\* format!("Episode {}", episode_number)
EpisodeTitle(n) == <<"E", "p", "i", "s", "o", "d", "e", " ">> \o ToDecimal(n)

\* Rows given to the batch inserts
ShowBatchRows ==
    {[name |-> ShowA, show_type |-> "Anime"], [name |-> ShowB, show_type |-> "Anime"]}

\* Rows given to the single-row inserts: also a row with a known name and
\* another show_type
ShowRows == ShowBatchRows \cup {[name |-> ShowA, show_type |-> "Drama"]}

EpisodeRow(s, nm, n) == [show_id |-> s, name |-> nm, season |-> 1, episode_number |-> n]

EpisodeBatchRows == {EpisodeRow(1, EpisodeTitle(1), 1), EpisodeRow(2, EpisodeTitle(2), 2)}

EpisodeRows == EpisodeBatchRows \cup {EpisodeRow(1, Pilot, 1)}

TimeA == TimestampToString(Timestamp(0, 0, 1, 0))
TimeB == TimestampToString(Timestamp(0, 0, 4, 0))

TranscriptRow(e, l, t1, t2, txt) ==
    [episode_id |-> e, line_id |-> l, time_start |-> t1, time_end |-> t2, text |-> txt]

TranscriptBatchRows ==
    {TranscriptRow(1, 1, TimeA, TimeB, <<"a", "\n", "b">>),
     TranscriptRow(2, 2, TimeA, TimeB, <<"c">>)}

TranscriptRows == TranscriptBatchRows \cup {TranscriptRow(1, 2, TimeA, TimeB, <<"c">>)}

\* What the environment does to a batch call on n rows: nothing, the execution
\* of row failAt fails, or the commit fails
Envs(n) ==
    [failAt : 0..n, commitFails : {FALSE}, io : {"none"}, kept : {0}]
    \cup [failAt : {0}, commitFails : {TRUE}, io : {"none"}, kept : {0}]

\* and to a call that writes up to k records to the side file: File::create
\* fails, or the flush fails with only some of the records written
IoEnvs(k) ==
    [failAt : {0}, commitFails : {FALSE}, io : {"create"}, kept : {0}]
    \cup [failAt : {0}, commitFails : {FALSE}, io : {"flush"}, kept : 0..k]

NoRet ==
    [op |-> "none", rows |-> <<>>, flag |-> FALSE, status |-> "ok", err |-> "none",
     failed |-> 0, value |-> 0, accepted |-> 0, written |-> 0, events |-> <<>>]

NoPending == [shows |-> <<>>, episodes |-> <<>>, transcripts |-> <<>>, output_csv |-> FALSE]

NoParse == [ok |-> FALSE, err |-> "none"]

NoMethods == [number |-> "none", name |-> "none"]

NoEntries == [status |-> "none"]

\* Nothing read from the file system yet
NoFront ==
    /\ srtText = <<>>
    /\ given = <<>>
    /\ parsed = NoParse
    /\ tree = {}
    /\ methods = NoMethods
    /\ entries = NoEntries

\* DbHandler::new on an empty store, then create_tables
InitDb ==
    /\ shows = {}
    /\ episodes = {}
    /\ transcripts = {}
    /\ lastRowid = 0
    /\ fkEnforced \in BOOLEAN
    /\ csv = <<>>
    /\ ret = NoRet

\* The state after a call with outcome o returning value
Returns(op, rows, flag, o, value) ==
    /\ shows' = o.db.shows
    /\ episodes' = o.db.episodes
    /\ transcripts' = o.db.transcripts
    /\ lastRowid' = o.db.last
    /\ csv' = o.csv
    /\ ret' = [op |-> op, rows |-> rows, flag |-> flag, status |-> o.status, err |-> o.err,
               failed |-> o.failed, value |-> value, accepted |-> o.accepted,
               written |-> o.written, events |-> o.events]
    /\ UNCHANGED fkEnforced

(***************************************************************************)
(* Single-row inserts: execute, then return last_insert_rowid.             *)
(***************************************************************************)
SingleInsert(op, db, file, row, fails) ==
    LET r == Exec(op, db, row, fails)
    IN  IF r.rows < 0
        THEN Outcome(db, file, "err", "row", 1, 0, 0, <<>>)
        ELSE Outcome(r.db, file, "ok", "none", 0, r.rows, 0, <<>>)

\* Mutant: the call returns the number of rows affected
ReturnedRowsAffected(o) == o.accepted

\* Ok(self.conn.last_insert_rowid()), or the error of execute
Returned(o) == IF o.status = "ok" THEN o.db.last ELSE 0

\* The caller of the DbHandler issues one call at a time and takes its result
\* before the next
Called ==
    /\ pc = "ready"
    /\ run < MaxCalls
    /\ pc' = "returned"
    /\ run' = run + 1
    /\ UNCHANGED <<pending, frontvars>>

insert_show ==
    \E row \in ShowRows, fails \in BOOLEAN :
        LET o == SingleInsert("shows", Db, csv, row, fails)
        IN  Called /\ Returns("insert_show", <<row>>, FALSE, o, Returned(o))

insert_episode ==
    \E row \in EpisodeRows, fails \in BOOLEAN :
        LET o == SingleInsert("episodes", Db, csv, row, fails)
        IN  Called /\ Returns("insert_episode", <<row>>, FALSE, o, Returned(o))

insert_transcript ==
    \E row \in TranscriptRows, fails \in BOOLEAN :
        LET o == SingleInsert("transcripts", Db, csv, row, fails)
        IN  Called /\ Returns("insert_transcript", <<row>>, FALSE, o, Returned(o))

(***************************************************************************)
(* Batch inserts called with any input.                                    *)
(***************************************************************************)
\* The most records a batch can write: one per line of each row's text
RECURSIVE TotalLines(_)
TotalLines(rows) ==
    IF rows = <<>> THEN 0 ELSE Len(Split(Head(rows).text, "\n")) + TotalLines(Tail(rows))

TranscriptEnvs(rows, output_csv) ==
    Envs(Len(rows)) \cup (IF output_csv THEN IoEnvs(TotalLines(rows)) ELSE {})

ShowsCall(rows, env) ==
    Returns("batch_insert_shows", rows, FALSE, BatchInsert("shows", Db, csv, rows, env), 0)

EpisodesCall(rows, env) ==
    Returns("batch_insert_episodes", rows, FALSE, BatchInsert("episodes", Db, csv, rows, env), 0)

TranscriptsCall(rows, output_csv, env) ==
    Returns("batch_insert_transcripts", rows, output_csv,
            BatchInsertTranscripts(Db, csv, rows, output_csv, env), 0)

batch_insert_shows ==
    \E rows \in SeqsUpTo(ShowBatchRows, MaxBatch) :
        \E env \in Envs(Len(rows)) : Called /\ ShowsCall(rows, env)

batch_insert_episodes ==
    \E rows \in SeqsUpTo(EpisodeBatchRows, MaxBatch) :
        \E env \in Envs(Len(rows)) : Called /\ EpisodesCall(rows, env)

batch_insert_transcripts ==
    \E rows \in SeqsUpTo(TranscriptBatchRows, MaxBatch), output_csv \in BOOLEAN :
        \E env \in TranscriptEnvs(rows, output_csv) :
            Called /\ TranscriptsCall(rows, output_csv, env)

\* DbHandler::new on the store as it is, then create_tables (IF NOT EXISTS):
\* a new connection, whose last_insert_rowid is 0
new ==
    /\ Called
    /\ lastRowid' = 0
    /\ ret' = [NoRet EXCEPT !.op = "new"]
    /\ UNCHANGED <<shows, episodes, transcripts, fkEnforced, csv>>

\* The caller takes the result and goes on to its next call
next_call ==
    /\ pc = "returned"
    /\ pc' = "ready"
    /\ ret' = NoRet
    /\ UNCHANGED <<shows, episodes, transcripts, lastRowid, fkEnforced, csv, pending, run, frontvars>>

Init ==
    /\ InitDb
    /\ NoFront
    /\ pc = "ready"
    /\ pending = NoPending
    /\ run = 0

Next ==
    \/ insert_show
    \/ insert_episode
    \/ insert_transcript
    \/ batch_insert_shows
    \/ batch_insert_episodes
    \/ batch_insert_transcripts
    \/ new
    \/ next_call

Spec == Init /\ [][Next]_vars

(***************************************************************************)
(* The three batch inserts run in the order of main, on batches the caller *)
(* supplies, and then run again on the same batches by a new process.      *)
(***************************************************************************)
PendingInputs ==
    [shows : SeqsUpTo(ShowBatchRows, MaxBatch),
     episodes : SeqsUpTo(EpisodeBatchRows, MaxBatch),
     transcripts : SeqsUpTo(TranscriptBatchRows, MaxBatch),
     output_csv : BOOLEAN]

\* `?` on the result of a batch insert: main goes on, or returns the error
After(next) == pc' = IF ret'.status = "ok" THEN next ELSE "aborted"

run_shows ==
    /\ pc = "shows"
    /\ \E env \in Envs(Len(pending.shows)) : ShowsCall(pending.shows, env)
    /\ After("episodes")
    /\ UNCHANGED <<pending, run, frontvars>>

run_episodes ==
    /\ pc = "episodes"
    /\ \E env \in Envs(Len(pending.episodes)) : EpisodesCall(pending.episodes, env)
    /\ After("transcripts")
    /\ UNCHANGED <<pending, run, frontvars>>

run_transcripts ==
    /\ pc = "transcripts"
    /\ \E env \in TranscriptEnvs(pending.transcripts, pending.output_csv) :
           TranscriptsCall(pending.transcripts, pending.output_csv, env)
    /\ After("done")
    /\ UNCHANGED <<pending, run, frontvars>>

\* The same input is ingested again: a new connection on the store as it is
run_again ==
    /\ pc = "done"
    /\ run < MaxRuns
    /\ pc' = "shows"
    /\ run' = run + 1
    /\ lastRowid' = 0
    /\ ret' = [NoRet EXCEPT !.op = "new"]
    /\ UNCHANGED <<shows, episodes, transcripts, fkEnforced, csv, pending, frontvars>>

InitIdem ==
    /\ InitDb
    /\ NoFront
    /\ pc = "shows"
    /\ pending \in PendingInputs
    /\ run = 1

NextIdem ==
    \/ run_shows
    \/ run_episodes
    \/ run_transcripts
    \/ run_again

SpecIdem == InitIdem /\ [][NextIdem]_vars

(***************************************************************************)
(* The parser called on a text.  The texts are written from blocks: the    *)
(* sequence number as written and its value, the two timestamps and the    *)
(* lines of text.                                                          *)
(***************************************************************************)
Block(digits, value, fits, start, end, lines) ==
    [digits |-> digits, number |-> value, fits |-> fits, start |-> start, end |-> end,
     lines |-> lines]

\* 2^64, one more than usize::MAX
TwoPow64 == <<"1", "8", "4", "4", "6", "7", "4", "4", "0", "7",
              "3", "7", "0", "9", "5", "5", "1", "6", "1", "6">>

Time1 == Timestamp(0, 0, 1, 0)
Time4 == Timestamp(0, 0, 4, 0)
Time5 == Timestamp(0, 0, 5, 500)
Time9 == Timestamp(99, 59, 59, 999)

SampleBlocks ==
    {Block(<<"1">>, 1, TRUE, Time1, Time4, <<<<"a">>>>),
     Block(<<"2">>, 2, TRUE, Time5, Time9, <<<<"b">>, <<"c">>>>),
     Block(<<"0", "0", "7">>, 7, TRUE, Time1, Time4, <<<<" ", "d", "\t">>>>),
     Block(<<"3">>, 3, TRUE, Time4, Time5,
           <<<<"4">>, TimestampToString(Time1) \o Arrow \o TimestampToString(Time4), <<" ">>>>),
     Block(TwoPow64, 0, FALSE, Time1, Time4, <<<<"a">>>>)}

\* Lines joined by a line break
RECURSIVE Join(_, _)
Join(parts, sep) ==
    IF parts = <<>> THEN <<>>
    ELSE IF Len(parts) = 1 THEN parts[1]
    ELSE parts[1] \o sep \o Join(Tail(parts), sep)

\* How a text is laid out: with a byte-order mark or not, with LF or CRLF line
\* breaks, and with 0 to 2 line breaks after the last block
Layouts == [bom : BOOLEAN, crlf : BOOLEAN, final : 0..2]

BlockText(b, nl) ==
    Join(<<b.digits, TimestampToString(b.start) \o Arrow \o TimestampToString(b.end)>>
         \o b.lines, nl)

Render(blocks, layout) ==
    LET nl == IF layout.crlf THEN <<"\r", "\n">> ELSE <<"\n">>
    IN  (IF layout.bom THEN <<BOM>> ELSE <<>>)
        \o Join([i \in 1..Len(blocks) |-> BlockText(blocks[i], nl)], nl \o nl)
        \o Join([i \in 1..layout.final |-> nl], <<>>)

\* The characters of the texts written from no block
LooseChars == {"1", ":", " ", "x", "\n", "\r", BOM}

\* The number line, the timestamp line and its line break: what a text must
\* hold for a block to match
HeaderLen(b) == Len(b.digits) + 31

\* Texts in which no block matches: the short texts, and the text of a block
\* cut within its header or with one character of its header overwritten
DegenerateTexts ==
    SeqsUpTo(LooseChars, MaxChars)
    \cup UNION {{SubSeq(BlockText(b, <<"\n">>), 1, k) : k \in 1..(HeaderLen(b) - 1)}
                \cup {[BlockText(b, <<"\n">>) EXCEPT ![k] = "x"] : k \in 1..HeaderLen(b)} :
                b \in {x \in SampleBlocks : x.number = 1}}

\* The texts the parser is called on, each with the blocks it was written from
ParserInputs ==
    {[given |-> blocks, text |-> Render(blocks, layout)] :
        blocks \in SeqsUpTo(SampleBlocks, MaxBlocks) \ {<<>>}, layout \in Layouts}
    \cup {[given |-> <<>>, text |-> text] : text \in DegenerateTexts}

\* Subtitles::parse_from_str(&srtText)
parse_from_str ==
    /\ pc = "parse"
    /\ parsed' = ParseFromStr(srtText)
    /\ pc' = "parsed"
    /\ UNCHANGED <<dbvars, pending, run, srtText, given, tree, methods, entries>>

InitParse ==
    /\ InitDb
    /\ pending = NoPending
    /\ run = 0
    /\ pc = "parse"
    /\ \E in \in ParserInputs :
           /\ given = in.given
           /\ srtText = in.text
    /\ parsed = NoParse
    /\ tree = {}
    /\ methods = NoMethods
    /\ entries = NoEntries

NextParse == parse_from_str

SpecParse == InitParse /\ [][NextParse]_vars

(***************************************************************************)
(* A Timestamp formatted, parsed and formatted again.                      *)
(***************************************************************************)
\* Values of a field of a Timestamp: within and beyond the range of a clock,
\* up to the largest integer of the model
FieldValues == {0, 7, 60, 100, 1000, 2147483647}

Timestamps == {Timestamp(h, m, sec, ms) : h, m, sec, ms \in FieldValues}

\* given.to_string()
to_string ==
    /\ pc = "format"
    /\ srtText' = TimestampToString(given)
    /\ pc' = "formatted"
    /\ UNCHANGED <<dbvars, pending, run, given, parsed, tree, methods, entries>>

\* Timestamp::from_str(&srtText)
from_str ==
    /\ pc = "formatted"
    /\ parsed' = TimestampFromStr(srtText)
    /\ pc' = "reparsed"
    /\ UNCHANGED <<dbvars, pending, run, srtText, given, tree, methods, entries>>

\* to_string() of the parsed Timestamp
to_string_again ==
    /\ pc = "reparsed"
    /\ parsed.ok
    /\ srtText' = TimestampToString(parsed.value)
    /\ pc' = "reformatted"
    /\ UNCHANGED <<dbvars, pending, run, given, parsed, tree, methods, entries>>

InitTime ==
    /\ InitDb
    /\ pending = NoPending
    /\ run = 0
    /\ pc = "format"
    /\ given \in Timestamps
    /\ srtText = <<>>
    /\ parsed = NoParse
    /\ tree = {}
    /\ methods = NoMethods
    /\ entries = NoEntries

NextTime ==
    \/ to_string
    \/ from_str
    \/ to_string_again

SpecTime == InitTime /\ [][NextTime]_vars

(***************************************************************************)
(* The aggregator (parsing.rs) on a directory tree.                        *)
(***************************************************************************)
\* get_episode_name_from_second_part: the second of three or more parts of the
\* file name split at '.'
get_episode_name_from_second_part(file_path) ==
    LET parts == SplitAny(FileName(file_path), {"."})
    IN  IF Len(parts) >= 3 THEN Some(parts[2]) ELSE None

\* get_episode_name
get_episode_name(method, file_path, episode_number) ==
    IF method = "FromSecondPart" THEN get_episode_name_from_second_part(file_path)
    ELSE Some(EpisodeTitle(episode_number))

\* Subtitles::parse_from_file: the content of a regular file is parsed, reading
\* anything else is an I/O error
parse_from_file(e) ==
    IF e.kind = "file" THEN ParseFromStr(e.content) ELSE [ok |-> FALSE, err |-> "IoError"]

\* .unwrap_or_else(|| format!("Episode {}", episode_number))
NameOrDefault(name, episode_number) ==
    IF name.some THEN name.value ELSE EpisodeTitle(episode_number)

\* The result of process_srt_file from the resolved identity and the parsed
\* content.  file is the path the SrtEntry was made from.
Processed(e, m, show_name, episode_number, content) ==
    IF episode_number.panic THEN [status |-> "panic", file |-> e.path]
    ELSE IF ~content.ok
    THEN [status |-> "err", file |-> e.path, episode_number |-> episode_number.value]
    ELSE [status |-> "ok", file |-> e.path, show_name |-> show_name,
          episode_name |-> NameOrDefault(get_episode_name(m.name, e.path, episode_number.value),
                                         episode_number.value),
          episode_number |-> episode_number.value,
          content |-> content.value]

\* process_srt_file on entry e: the identity is resolved, then the content is
\* parsed
process_srt_file(t, e, m) ==
    Processed(e, m, get_show_name(e.path),
              get_episode_number(t, m.number, get_show_name(e.path), e.path),
              parse_from_file(e))

\* Mutant: the sort puts an entry before the earlier entries of equal number
RECURSIVE SortByKeyUnstable(_)
SortByKeyUnstable(es) ==
    IF es = <<>> THEN <<>>
    ELSE LET x == es[Len(es)]
             front == SortByKeyUnstable(SubSeq(es, 1, Len(es) - 1))
             k == Cardinality({i \in 1..Len(front) : front[i].episode_number < x.episode_number})
         IN  SubSeq(front, 1, k) \o <<x>> \o SubSeq(front, k + 1, Len(front))

\* entries.sort_by_key(|entry| entry.episode_number): a stable sort
RECURSIVE SortByKey(_)
SortByKey(es) ==
    IF es = <<>> THEN <<>>
    ELSE LET x == es[Len(es)]
             front == SortByKey(SubSeq(es, 1, Len(es) - 1))
             k == Cardinality({i \in 1..Len(front) : front[i].episode_number <= x.episode_number})
         IN  SubSeq(front, 1, k) \o <<x>> \o SubSeq(front, k + 1, Len(front))

\* The entries the walk hands to process_srt_file: those whose extension is srt
Candidates(t) == {e \in t : HasExtension(FileName(e.path), Srt)}

IsUnder(path, dir) == Len(path) > Len(dir) /\ SubSeq(path, 1, Len(dir)) = dir

\* The orders in which WalkDir can yield the candidates: depth first, a
\* directory before its content, the entries of a directory in any order
Walks(t) ==
    LET n == Cardinality(Candidates(t))
    IN  {w \in [1..n -> Candidates(t)] :
            /\ \A i, j \in 1..n : w[i] = w[j] => i = j
            /\ \A d \in {x.path : x \in {y \in t : y.kind = "dir"}} :
                   LET under == {i \in 1..n : IsUnder(w[i].path, d)}
                   IN  /\ \A i, j \in under : \A k \in i..j : k \in under
                       /\ \A i \in 1..n : w[i].path = d => \A j \in under : i < j}

\* The SrtEntry of a processed file
SrtEntry(r) ==
    [file |-> r.file, show_name |-> r.show_name, episode_name |-> r.episode_name,
     episode_number |-> r.episode_number, content |-> r.content]

\* show_entries.entry(name).or_insert_with(Vec::new).push(srt_entry)
Push(groups, srt_entry) ==
    IF srt_entry.show_name \in DOMAIN groups
    THEN [groups EXCEPT ![srt_entry.show_name] = Append(@, srt_entry)]
    ELSE (srt_entry.show_name :> <<srt_entry>>) @@ groups

\* The loop of process_srt_directory from entry i of the walk on: groups maps
\* a show name to its entries, resolved lists the episode number resolved for
\* each candidate
RECURSIVE WalkLoop(_, _, _, _, _, _)
RECURSIVE WalkStep(_, _, _, _, _, _, _)
WalkStep(t, walk, i, m, groups, resolved, r) ==
    IF r.status = "panic" THEN [status |-> "panic", file |-> r.file]
    ELSE WalkLoop(t, walk, i + 1, m,
                  IF r.status = "ok" THEN Push(groups, SrtEntry(r)) ELSE groups,
                  resolved \cup {[file |-> r.file, episode_number |-> r.episode_number]})

WalkLoop(t, walk, i, m, groups, resolved) ==
    IF i > Len(walk) THEN [status |-> "ok", groups |-> groups, resolved |-> resolved]
    ELSE WalkStep(t, walk, i, m, groups, resolved, process_srt_file(t, walk[i], m))

\* process_srt_directory: the loop, then each group sorted by episode number
ProcessSrtDirectory(t, walk, m) ==
    LET r == WalkLoop(t, walk, 1, m, <<>>, {})
    IN  IF r.status = "panic" THEN r
        ELSE [status |-> "ok", resolved |-> r.resolved,
              discovered |-> [i \in 1..Len(walk) |-> walk[i].path],
              groups |-> [k \in DOMAIN r.groups |-> SortByKey(r.groups[k])]]

(***************************************************************************)
(* The directory trees of the model: up to MaxFiles of the entries below,  *)
(* with the directories above them.                                        *)
(***************************************************************************)
Named(stem) == stem \o <<".">> \o Srt

EpSrt == Named(<<"e", "p">>)

TreeEntries ==
    {[path |-> <<Named(<<"a">>)>>, kind |-> "file"],
     [path |-> <<ShowA, EpSrt>>, kind |-> "file"],
     [path |-> <<ShowA, Named(<<"E", "2", ".", "b">>)>>, kind |-> "file"],
     [path |-> <<ShowA, <<"n", ".", "t", "x", "t">>>>, kind |-> "file"],
     [path |-> <<ShowA, Named(<<"0">>)>>, kind |-> "dir"],
     [path |-> <<ShowB, Named(<<"a">>)>>, kind |-> "file"],
     [path |-> <<ShowB, Named(<<"E", "1">>)>>, kind |-> "file"],
     [path |-> <<ShowA, ShowB, Named(<<"a">>)>>, kind |-> "file"]}

Layout(crlf) == [bom |-> FALSE, crlf |-> crlf, final |-> 1]

\* Contents of a file: one block, two blocks, two blocks with the same
\* timestamps, and a text no block of which matches
OneBlock == Render(<<Block(<<"1">>, 1, TRUE, Time1, Time4, <<<<"a">>>>)>>, Layout(FALSE))

TwoBlocks ==
    Render(<<Block(<<"1">>, 1, TRUE, Time1, Time4, <<<<"a">>, <<"b">>>>),
             Block(<<"2">>, 2, TRUE, Time4, Time5, <<<<"c">>>>)>>, Layout(TRUE))

TwoBlocksSameTimes ==
    Render(<<Block(<<"1">>, 1, TRUE, Time1, Time4, <<<<"a">>>>),
             Block(<<"2">>, 2, TRUE, Time1, Time4, <<<<"c">>>>)>>, Layout(FALSE))

NoBlock == <<"x">>

\* The texts of two well-formed blocks
TwoBlockTexts == {TwoBlocks, TwoBlocksSameTimes}

Dir(path) == [path |-> path, kind |-> "dir", content |-> <<>>]

\* The directories above the entries of F
Above(F) == UNION {{Dir(SubSeq(e.path, 1, k)) : k \in 1..(Len(e.path) - 1)} : e \in F}

\* The trees of up to MaxFiles of the given entries, files holding contents
TreesOver(given_entries, contents) ==
    UNION {{{[path |-> e.path, kind |-> e.kind,
              content |-> IF e.kind = "file" THEN c[e] ELSE <<>>] : e \in F}
            \cup Above(F) :
            c \in [F -> contents]} :
           F \in {G \in SUBSET given_entries : Cardinality(G) <= MaxFiles}}

TreesOf(contents) == TreesOver(TreeEntries, contents)

NumberMethods == {"FromFilename", "FromFileOrder", "FromLastNumbers"}

NameMethods == {"FromSecondPart", "FromEpisodeNumber"}

\* process_srt_directory(root, &methods.number, &methods.name)
process_srt_directory ==
    /\ pc = "walk"
    /\ \E walk \in Walks(tree) : entries' = ProcessSrtDirectory(tree, walk, methods)
    /\ pc' = IF entries'.status = "ok" THEN "walked" ELSE "panicked"
    /\ UNCHANGED <<dbvars, pending, run, srtText, given, parsed, tree, methods>>

InitDir ==
    /\ InitDb
    /\ pending = NoPending
    /\ run = 0
    /\ pc = "walk"
    /\ srtText = <<>>
    /\ given = <<>>
    /\ parsed = NoParse
    /\ tree \in TreesOf({OneBlock, NoBlock})
    /\ methods \in [number : NumberMethods, name : NameMethods]
    /\ entries = NoEntries

NextDir == process_srt_directory

SpecDir == InitDir /\ [][NextDir]_vars

(***************************************************************************)
(* main: aggregate under FromFileOrder and FromEpisodeNumber, flatten the  *)
(* groups into three batches with positional ids, run the batch inserts.   *)
(***************************************************************************)
\* The orders in which the HashMap can be iterated
Orders(S) == {o \in [1..Cardinality(S) -> S] : \A i, j \in 1..Cardinality(S) : o[i] = o[j] => i = j}

\* The episodes of all shows in the order of the loops, each with the show_id
\* main gives it: (shows.len() + 1) before the push of its show
RECURSIVE EpisodesInOrder(_, _, _)
EpisodesInOrder(groups, order, i) ==
    IF i > Len(order) THEN <<>>
    ELSE [k \in 1..Len(groups[order[i]]) |-> [show_id |-> i, episode |-> groups[order[i]][k]]]
         \o EpisodesInOrder(groups, order, i + 1)

\* Mutant: line_id is the 0-based index of the subtitle
TranscriptsOfZeroBased(episode_id, content) ==
    [index \in 1..Len(content) |->
        TranscriptRow(episode_id, index - 1, TimestampToString(content[index].start_time),
                      TimestampToString(content[index].end_time), content[index].text)]

\* The transcript rows of one episode: line_id is index + 1
TranscriptsOf(episode_id, content) ==
    [index \in 1..Len(content) |->
        TranscriptRow(episode_id, index, TimestampToString(content[index].start_time),
                      TimestampToString(content[index].end_time), content[index].text)]

\* The transcript rows of the episodes from the i-th on: episode_id is
\* (episodes.len() + 1) before the push of the episode
RECURSIVE TranscriptsInOrder(_, _)
TranscriptsInOrder(eps, i) ==
    IF i > Len(eps) THEN <<>>
    ELSE TranscriptsOf(i, eps[i].episode.content) \o TranscriptsInOrder(eps, i + 1)

EpisodeRowsOf(eps) ==
    [i \in 1..Len(eps) |->
        EpisodeRow(eps[i].show_id, eps[i].episode.episode_name, eps[i].episode.episode_number)]

\* The three batches main prepares
Flatten(groups, order, output_csv) ==
    [shows |-> [i \in 1..Len(order) |-> [name |-> order[i], show_type |-> "Anime"]],
     episodes |-> EpisodeRowsOf(EpisodesInOrder(groups, order, 1)),
     transcripts |-> TranscriptsInOrder(EpisodesInOrder(groups, order, 1), 1),
     output_csv |-> output_csv]

Prepared(result, output_csv) ==
    IF result.status = "ok"
    THEN /\ \E order \in Orders(DOMAIN result.groups) :
                pending' = Flatten(result.groups, order, output_csv)
         /\ pc' = "shows"
    ELSE pending' = pending /\ pc' = "panicked"

\* What main holds of the aggregation: the map of the groups, or the panic
ShowEntries(result) ==
    IF result.status = "ok" THEN [status |-> "ok", groups |-> result.groups] ELSE result

\* main up to the batch inserts
main ==
    /\ pc = "main"
    /\ \E walk \in Walks(tree), output_csv \in BOOLEAN :
           /\ entries' = ShowEntries(ProcessSrtDirectory(tree, walk, methods))
           /\ Prepared(entries', output_csv)
    /\ UNCHANGED <<dbvars, run, srtText, given, parsed, tree, methods>>

InitMain ==
    /\ InitDb
    /\ pending = NoPending
    /\ run = 1
    /\ pc = "main"
    /\ srtText = <<>>
    /\ given = <<>>
    /\ parsed = NoParse
    /\ tree \in TreesOf(TwoBlockTexts)
    /\ methods = [number |-> "FromFileOrder", name |-> "FromEpisodeNumber"]
    /\ entries = NoEntries

NextMain ==
    \/ main
    \/ run_shows
    \/ run_episodes
    \/ run_transcripts

SpecMain == InitMain /\ [][NextMain]_vars

(***************************************************************************)
(* main run again and again on one store: each run is a new process with a *)
(* new connection, on a root directory that kept its files and may have    *)
(* gained some; the walk and the iteration of the HashMap take any order.  *)
(***************************************************************************)
\* Subtitle files of two show directories and of a directory ShowB below ShowA
RunEntries ==
    {[path |-> <<ShowA, EpSrt>>, kind |-> "file"],
     [path |-> <<ShowB, Named(<<"a">>)>>, kind |-> "file"],
     [path |-> <<ShowB, Named(<<"E", "1">>)>>, kind |-> "file"],
     [path |-> <<ShowA, ShowB, Named(<<"a">>)>>, kind |-> "file"],
     [path |-> <<ShowA, ShowB, Named(<<"E", "1">>)>>, kind |-> "file"]}

RunTrees == TreesOver(RunEntries, {OneBlock})

\* The next run of the program, after a run that returned Ok
main_again ==
    /\ pc = "done"
    /\ run < MaxRuns
    /\ tree' \in {t \in RunTrees : tree \subseteq t}
    /\ pc' = "main"
    /\ run' = run + 1
    /\ lastRowid' = 0
    /\ ret' = [NoRet EXCEPT !.op = "new"]
    /\ pending' = NoPending
    /\ entries' = NoEntries
    /\ UNCHANGED <<shows, episodes, transcripts, fkEnforced, csv, srtText, given, parsed,
                   methods>>

InitRuns ==
    /\ InitDb
    /\ pending = NoPending
    /\ run = 1
    /\ pc = "main"
    /\ srtText = <<>>
    /\ given = <<>>
    /\ parsed = NoParse
    /\ tree \in RunTrees
    /\ methods = [number |-> "FromFileOrder", name |-> "FromEpisodeNumber"]
    /\ entries = NoEntries

NextRuns ==
    \/ main
    \/ run_shows
    \/ run_episodes
    \/ run_transcripts
    \/ main_again

SpecRuns == InitRuns /\ [][NextRuns]_vars

(***************************************************************************)
(* Properties.                                                             *)
(***************************************************************************)
BatchOps == {"batch_insert_shows", "batch_insert_episodes", "batch_insert_transcripts"}

SingleOps == {"insert_show", "insert_episode", "insert_transcript"}

TablesUnchanged == shows' = shows /\ episodes' = episodes /\ transcripts' = transcripts

\* C1 (batch atomicity): when the execution of the N-th row of a batch insert
\* fails, the call returns the error and the three tables are as before the call.
C1_BatchAtomicity ==
    [][(ret'.op \in BatchOps /\ ret'.err = "row")
        => (ret'.status = "err" /\ ret'.failed >= 1 /\ TablesUnchanged)]_vars

\* C1 witness: a batch insert of episodes failed on its second row, a show_id
\* that is no show, after its first row had been inserted.
C1_Witness ==
    /\ ret.op = "batch_insert_episodes"
    /\ ret.err = "row"
    /\ ret.failed = 2
    /\ ret.accepted = 1
    /\ fkEnforced
    /\ \A s \in shows : s.id # ret.rows[2].show_id

\* C2 (idempotent ingestion): the second run of the three batch inserts on the
\* same three input sequences leaves the three tables unchanged, accepts no row
\* and writes no record to the side file.
C2_Idempotent ==
    [][(run >= 2 /\ ret'.op \in BatchOps)
        => (TablesUnchanged /\ ret'.accepted = 0 /\ ret'.written = 0)]_vars

\* C2 witness: the second run is done, with the side-export flag set, on
\* batches of which the first run inserted rows into every table.
C2_Witness ==
    /\ run = 2
    /\ pc = "done"
    /\ pending.output_csv
    /\ shows # {} /\ episodes # {} /\ transcripts # {}
    /\ Len(pending.transcripts) = MaxBatch

\* Every flush of the side file comes after a commit of the transaction
FlushAfterCommit(events) ==
    \A i \in 1..Len(events) :
        events[i] = "flush" => \E j \in 1..(i - 1) : events[j] = "commit"

\* C3 (side file after commit): in batch_insert_transcripts with the flag set
\* the commit of the transaction precedes the flush of the side file, and when
\* the transaction does not commit (a row execution or the commit fails) the
\* side file holds no record of the batch.
C3_FlushOnlyAfterCommit ==
    (ret.op = "batch_insert_transcripts" /\ ret.flag)
        => /\ FlushAfterCommit(ret.events)
           /\ ret.err \in {"row", "commit"} => csv = <<>>

\* A transcript row with the natural key of row
SameTranscript(r, row) ==
    /\ r.episode_id = row.episode_id
    /\ r.time_start = row.time_start
    /\ r.time_end = row.time_end

\* Row i of the batch is no duplicate: of no row of the table before the call
\* and of no earlier row of the batch
Fresh(before, rows, i) ==
    /\ \A r \in before : ~SameTranscript(r, rows[i])
    /\ \A j \in 1..(i - 1) : ~SameTranscript(rows[j], rows[i])

\* The records '<id>,<line>' of the rows from row i on that are no duplicates,
\* in the order of the batch, id being the row's id in the table after the call
RECURSIVE ExpectedCsv(_, _, _, _)
ExpectedCsv(before, rows, after, i) ==
    IF i > Len(rows) THEN <<>>
    ELSE (IF Fresh(before, rows, i)
          THEN LET id == (CHOOSE r \in after : SameTranscript(r, rows[i])).id
                   lines == Split(rows[i].text, "\n")
               IN  [k \in 1..Len(lines) |-> <<id, lines[k]>>]
          ELSE <<>>)
         \o ExpectedCsv(before, rows, after, i + 1)

\* C4 (side file content): after a successful batch_insert_transcripts with the
\* flag set the side file holds exactly one record '<id>,<line>' per line of
\* the text of each row that was no duplicate, id being the store id of the
\* new row, in the order of the batch; duplicates contribute nothing.
C4_SideFileContent ==
    [][(ret'.op = "batch_insert_transcripts" /\ ret'.flag /\ ret'.status = "ok")
        => /\ csv' = ExpectedCsv(transcripts, ret'.rows, transcripts', 1)
           /\ \A i \in 1..Len(ret'.rows) :
                  Fresh(transcripts, ret'.rows, i)
                      => \E r \in transcripts' \ transcripts :
                             /\ SameTranscript(r, ret'.rows[i])
                             /\ r.text = ret'.rows[i].text]_vars

\* C4 witness: a successful call with the flag set on two rows of which one
\* was a duplicate and the other, a text of two lines, wrote two records.
C4_Witness ==
    /\ ret.op = "batch_insert_transcripts"
    /\ ret.flag
    /\ ret.status = "ok"
    /\ Len(ret.rows) = 2
    /\ ret.accepted = 1
    /\ Len(csv) = 2
    /\ csv[1][1] = csv[2][1]
    /\ csv[1][2] # csv[2][2]

\* The natural key of the row given to a single-row insert is in its table
KeyPresent(op, db, row) ==
    CASE op = "insert_show" -> \E r \in db.shows : r.name = row.name
      [] op = "insert_episode" ->
            \E r \in db.episodes : /\ r.show_id = row.show_id
                                   /\ r.season = row.season
                                   /\ r.episode_number = row.episode_number
      [] op = "insert_transcript" -> \E r \in db.transcripts : SameTranscript(r, row)

\* The rows a single-row insert created, given the tables before and after
Created(op, before, after) ==
    CASE op = "insert_show" -> after.shows \ before.shows
      [] op = "insert_episode" -> after.episodes \ before.episodes
      [] op = "insert_transcript" -> after.transcripts \ before.transcripts

\* C7 (single-row insert after a duplicate): a single-row insert whose natural
\* key is already in its table leaves the tables unchanged and returns the id
\* of the most recent insert on the connection (0 if there was none); one that
\* inserts returns the id of the row it created.
C7_StaleRowid ==
    [][(ret'.op \in SingleOps /\ ret'.status = "ok")
        => IF KeyPresent(ret'.op, Db, ret'.rows[1])
           THEN TablesUnchanged /\ ret'.value = lastRowid
           ELSE \E r \in Created(ret'.op, Db, Db') :
                    /\ Created(ret'.op, Db, Db') = {r}
                    /\ ret'.value = r.id]_vars

\* C7 witness: insert_show of a name already in the table returned an id that
\* is not the id of the show of that name, but of a row of another table.
C7_Witness ==
    /\ ret.op = "insert_show"
    /\ ret.status = "ok"
    /\ ret.accepted = 0
    /\ \E r \in shows : r.name = ret.rows[1].name /\ r.id # ret.value
    /\ \A r \in shows : r.id # ret.value
    /\ ret.value # 0

\* C8 (append-only tables): every row of a table before a step is in the table
\* after it, with its id and its column values, and no id is given twice.
C8_AppendOnly ==
    [][/\ shows \subseteq shows'
       /\ episodes \subseteq episodes'
       /\ transcripts \subseteq transcripts'
       /\ \A r1, r2 \in shows' : r1.id = r2.id => r1 = r2
       /\ \A r1, r2 \in episodes' : r1.id = r2.id => r1 = r2
       /\ \A r1, r2 \in transcripts' : r1.id = r2.id => r1 = r2]_vars

\* C8 witness: insert_show of a known name with another show_type returned
\* and the show of that name still has its own show_type.
C8_Witness ==
    /\ ret.op = "insert_show"
    /\ ret.status = "ok"
    /\ \E r \in shows : r.name = ret.rows[1].name /\ r.show_type # ret.rows[1].show_type

\* The text of a block as the parser is to return it
ExpectedText(b) == Trim(Join(b.lines, <<"\n">>))

ExpectedSubtitle(b) ==
    [number |-> b.number, start_time |-> b.start, end_time |-> b.end, text |-> ExpectedText(b)]

ParsedAsGiven ==
    /\ parsed.ok
    /\ Len(parsed.value) = Len(given)
    /\ \A i \in 1..Len(given) : parsed.value[i] = ExpectedSubtitle(given[i])

\* C10 as stated: a text of N >= 1 well-formed blocks separated by single
\* blank lines parses to exactly N entries in file order, each with its
\* block's sequence number, timestamps and trimmed text.
C10_WellFormedParses ==
    (pc = "parsed" /\ given # <<>>) => ParsedAsGiven

\* C10 amended: the same, for blocks whose sequence numbers do not exceed
\* usize::MAX.
C10_WellFormedInRangeParses ==
    (pc = "parsed" /\ given # <<>> /\ \A i \in 1..Len(given) : given[i].fits) => ParsedAsGiven

C10_Witness ==
    /\ pc = "parsed"
    /\ Len(given) = 2
    /\ \A i \in 1..Len(given) : given[i].fits
    /\ Len(given[1].lines) > 1
    /\ Len(given[2].digits) > 1
    /\ srtText[1] = BOM
    /\ "\r" \in {srtText[i] : i \in 1..Len(srtText)}
    /\ parsed.ok
    /\ Len(parsed.value) = 2

\* The files of the entries of the aggregator's result
EntryFiles ==
    UNION {{entries.groups[k][i].file : i \in 1..Len(entries.groups[k])} :
           k \in DOMAIN entries.groups}

\* The candidates whose content parses
Parsable(t) == {e.path : e \in {x \in Candidates(t) : parse_from_file(x).ok}}

Walked == pc \in {"walked", "panicked"}

\* C5 as stated: on any tree and with any strategies process_srt_directory
\* returns a result, which holds an entry for exactly the subtitle files whose
\* processing did not fail.
C5_NeverAborts ==
    Walked => (entries.status = "ok" /\ EntryFiles = Parsable(tree))

\* C5, what the code does keep: a call that returns has an entry for exactly
\* the subtitle files that parse, and a call that panics was resolving, by
\* file order, a file whose parent directory is not a child of root.
C5_ReturnsUnlessFileOrderOffShowDir ==
    Walked =>
        IF entries.status = "ok" THEN EntryFiles = Parsable(tree)
        ELSE /\ methods.number = "FromFileOrder"
             /\ Len(entries.file) # 2

\* The regular files with the srt extension of the show directory root/<show>
SubtitleFiles(t, show) ==
    {e.path : e \in {x \in Candidates(t) : x.kind = "file" /\ Parent(x.path) = <<show>>}}

ShowDirs(t) == {e.path[1] : e \in {x \in t : x.kind = "dir" /\ Len(x.path) = 1}}

NumberedByPosition(sorted) ==
    \A i \in 1..Len(sorted) : [file |-> sorted[i], episode_number |-> i] \in entries.resolved

\* C9 as stated: under FromFileOrder the subtitle file at position i of the
\* sorted list of the subtitle files of root/<show> resolves to episode
\* number i, so that k files get the numbers 1..k.
C9_FileOrderNumbers ==
    (pc = "walked" /\ methods.number = "FromFileOrder") =>
        \A show \in ShowDirs(tree) : NumberedByPosition(SortedPaths(SubtitleFiles(tree, show)))

\* C9, what the code does keep: the position is the one in the sorted list of
\* all entries of root/<show> with the srt extension, directories included.
C9_FileOrderNumbersOfListing ==
    (pc = "walked" /\ methods.number = "FromFileOrder") =>
        \A show \in ShowDirs(tree) : NumberedByPosition(SortedPaths(SrtListing(tree, show)))

\* The tree of the one file root/ShowA/ep.srt
OneFileTree(content) ==
    {Dir(<<ShowA>>), [path |-> <<ShowA, EpSrt>>, kind |-> "file", content |-> content]}

\* One show ShowA, one episode "Episode 1" numbered 1 of that show, and two
\* transcript rows of that episode with line_id 1 and 2 and the timestamps and
\* text of the two parsed blocks
EndsWithTwoLines(blocks) ==
    \E s \in shows, e \in episodes :
        /\ shows = {s}
        /\ s.name = ShowA
        /\ episodes = {e}
        /\ e.name = EpisodeTitle(1)
        /\ e.episode_number = 1
        /\ e.show_id = s.id
        /\ Cardinality(transcripts) = 2
        /\ \A i \in 1..2 : \E t \in transcripts :
               /\ t.line_id = i
               /\ t.episode_id = e.id
               /\ t.time_start = TimestampToString(blocks[i].start_time)
               /\ t.time_end = TimestampToString(blocks[i].end_time)
               /\ t.text = blocks[i].text

SameTimes(blocks) ==
    blocks[1].start_time = blocks[2].start_time /\ blocks[1].end_time = blocks[2].end_time

C11_NeverEmptySuccess ==
    pc = "parsed" =>
        /\ parsed.ok => Len(parsed.value) >= 1
        /\ given = <<>> => parsed = [ok |-> FALSE, err |-> "MalformedSubtitle"]

C11_Witness ==
    /\ pc = "parsed"
    /\ given = <<>>
    /\ Len(srtText) > 30
    /\ parsed = [ok |-> FALSE, err |-> "MalformedSubtitle"]

\* C12: the formatted text of a Timestamp parses to the same Timestamp, and
\* formatting the parsed Timestamp gives the same text again.
C12_TimestampRoundTrip ==
    /\ pc = "reparsed" => parsed = [ok |-> TRUE, value |-> given]
    /\ pc = "reformatted" => srtText = TimestampToString(given)

C12_Witness ==
    /\ pc = "reformatted"
    /\ given.hours > 99
    /\ given.minutes >= 60
    /\ given.milliseconds > 999
    /\ parsed = [ok |-> TRUE, value |-> given]
    /\ Len(srtText) > 12

\* The position at which the walk discovered a file
Discovered(file) == CHOOSE i \in 1..Len(entries.discovered) : entries.discovered[i] = file

GroupInOrder(k) ==
    LET g == entries.groups[k]
    IN  /\ \A i \in 1..Len(g) : g[i].show_name = k /\ get_show_name(g[i].file) = k
        /\ \A i, j \in 1..Len(g) :
               i < j => /\ g[i].episode_number <= g[j].episode_number
                        /\ g[i].episode_number = g[j].episode_number
                               => Discovered(g[i].file) < Discovered(g[j].file)

\* C13: every entry of the aggregator's result is in the group of its own
\* show name, each group is in ascending episode number, and entries of
\* equal number are in the order of their discovery.
C13_GroupedAndStablySorted ==
    pc = "walked" => \A k \in DOMAIN entries.groups : GroupInOrder(k)

C13_Witness ==
    /\ pc = "walked"
    /\ \E k \in DOMAIN entries.groups :
           LET g == entries.groups[k]
           IN  /\ Len(g) >= 3
               /\ g[1].episode_number = g[2].episode_number
               /\ g[2].episode_number < g[3].episode_number
               /\ Discovered(g[3].file) < Discovered(g[1].file)

\* The files of the run in the order main pushed their episodes, each with the
\* show name of its group
Flattened ==
    EpisodesInOrder(entries.groups, [i \in 1..Len(pending.shows) |-> pending.shows[i].name], 1)

\* An episode row with the natural key of row
SameEpisode(r, row) ==
    /\ r.show_id = row.show_id
    /\ r.season = row.season
    /\ r.episode_number = row.episode_number

\* The file whose batch row created the new episode row r: the first row of
\* the batch with r's natural key
EpisodeSource(r) ==
    Flattened[CHOOSE i \in 1..Len(pending.episodes) :
                  /\ SameEpisode(pending.episodes[i], r)
                  /\ \A j \in 1..(i - 1) : ~SameEpisode(pending.episodes[j], r)].episode

\* The file whose subtitle created the new transcript row t: main gave the
\* first batch row with t's natural key the position of that file's episode
TranscriptSource(t) ==
    Flattened[pending.transcripts[
                  CHOOSE i \in 1..Len(pending.transcripts) :
                      /\ SameTranscript(pending.transcripts[i], t)
                      /\ \A j \in 1..(i - 1) : ~SameTranscript(pending.transcripts[j], t)
              ].episode_id].episode

\* id is the store id of the show row named after the directory of file
ShowOf(file, id, db) == \E s \in db.shows : s.name = file.show_name /\ s.id = id

\* id is the store id of the episode row of file: the row of its show with
\* its episode number
EpisodeOf(file, id, db) ==
    \E e \in db.episodes :
        /\ e.id = id
        /\ ShowOf(file, e.show_id, db)
        /\ e.season = 1
        /\ e.episode_number = file.episode_number

\* C14 (referential correctness of the flattened batches): in any sequence of
\* runs of main on one store that was empty at first, over a root directory
\* that may gain files and be visited in any order, every episode row a run
\* creates has as show_id the store id of the show row named after the parent
\* directory of the file it came from, and every transcript row a run creates
\* has as episode_id the store id of the episode row of its own file.
C14_ReferentialCorrectness ==
    [][/\ ret'.op = "batch_insert_episodes"
          => \A r \in episodes' \ episodes : ShowOf(EpisodeSource(r), r.show_id, Db')
       /\ ret'.op = "batch_insert_transcripts"
          => \A t \in transcripts' \ transcripts :
                 EpisodeOf(TranscriptSource(t), t.episode_id, Db')]_vars

\* No two rows of the batch of episodes have the same natural key
DistinctEpisodes ==
    \A i, j \in 1..Len(pending.episodes) :
        SameEpisode(pending.episodes[i], pending.episodes[j]) => i = j

\* C14, what the code does keep: the references are correct in the first run
\* on the empty store when no two files of the run resolved to the same show
\* and episode number.
C14_FirstRunOfDistinctEpisodes ==
    [][(run = 1 /\ DistinctEpisodes) =>
       /\ ret'.op = "batch_insert_episodes"
          => \A r \in episodes' \ episodes : ShowOf(EpisodeSource(r), r.show_id, Db')
       /\ ret'.op = "batch_insert_transcripts"
          => \A t \in transcripts' \ transcripts :
                 EpisodeOf(TranscriptSource(t), t.episode_id, Db')]_vars

\* C14, later runs: the references are wrong in a later run also when no two
\* files of a run resolved to the same show and episode number (violated: a
\* show gained by the root directory and iterated before a stored one).
C14_ReferencesOfDistinctEpisodes ==
    [][DistinctEpisodes =>
       /\ ret'.op = "batch_insert_episodes"
          => \A r \in episodes' \ episodes : ShowOf(EpisodeSource(r), r.show_id, Db')
       /\ ret'.op = "batch_insert_transcripts"
          => \A t \in transcripts' \ transcripts :
                 EpisodeOf(TranscriptSource(t), t.episode_id, Db')]_vars

====
